---- MODULE Spec2Model ----
(***************************************************************************)
(* Model of Section-06-Bayesian-Optimization/                              *)
(* 03-Bayesian-Optimization-GBM-Manual.ipynb.                              *)
(*                                                                         *)
(* The notebook declares a search space (param_grid), an objective that    *)
(* returns the negated cross-validated accuracy, and hands both to         *)
(* skopt.gp_minimize, which runs the ask / evaluate / tell loop.  The      *)
(* notebook has no loop of its own: the loop below is the behaviour of the *)
(* gp_minimize call as the notebook makes it (no callback, no x0, no       *)
(* try/except around the call or inside the objective).                    *)
(*                                                                         *)
(* Abstractions: the space is projected on the max_depth and loss          *)
(* dimensions, an Integer dimension is sampled at its two bounds, and the  *)
(* cross-validated accuracy is a level in 0..MaxScore fixed per point (the *)
(* classifier and the folds are seeded, so the objective is a function of  *)
(* the point).  The Gaussian-process numerics are not modelled: a fit      *)
(* either succeeds or raises, and the acquisition optimum is any point of  *)
(* the space.                                                              *)
(***************************************************************************)
EXTENDS Integers, Sequences, FiniteSets, TLC

\* ---------------------------------------------------------------- bounds
MaxCalls == 3
MaxScore == 1
Overshoot == 1

\* ------------------------------------------------- constants of the notebook
MaxDepthLow == 1
MaxDepthHigh == 5
LossCategories == <<"log_loss", "exponential">>

VARIABLES
    grid,               \* param_grid as declared: [max_depth: [low, high], loss: categories]
    n_calls,            \* gp_minimize(n_calls=...)
    n_initial_points,   \* gp_minimize(n_initial_points=...)
    accuracy,           \* the response surface: mean cross-validated accuracy per point
    pc,                 \* "param_grid", "gp_minimize", "ask", "objective", "tell", "done", "aborted"
    n,                  \* completed iterations of the gp_minimize loop
    n_initial_left,     \* initial random points still to be told
    Xi,                 \* evaluated points, in evaluation order
    yi,                 \* their objective values
    next_x,             \* the point asked, being evaluated
    next_y,             \* the value the objective returned for next_x
    next_src,           \* where next_x came from: "random" or "model"
    src,                \* history: where each point of Xi came from
    model_next_x,       \* the point proposed by the last fit
    models,             \* one entry per surrogate fit: the Trace length it was fitted on
    result,             \* the optimizer's running result: [x, fun]
    gp_,                \* the notebook's gp_ variable: what gp_minimize returned
    error,              \* the uncaught exception that ended the run, or "none"
    evals,              \* history: number of calls of objective
    reported            \* what the notebook printed from gp_: [score, params]

vars == <<grid, n_calls, n_initial_points, accuracy, pc, n, n_initial_left, Xi, yi,
          next_x, next_y, next_src, src, model_next_x, models, result, gp_, error,
          evals, reported>>

\* ----------------------------------------------------------------- the space
Scores == 0..MaxScore

NoPoint == [max_depth |-> 0, loss |-> "none"]

NoResult == [x |-> NoPoint, fun |-> 0]

\* The declarations cell 9 may be given: the notebook's own, and malformed ones.
IntegerDims ==
    { [low |-> MaxDepthLow, high |-> MaxDepthHigh],
      [low |-> MaxDepthHigh, high |-> MaxDepthHigh],
      [low |-> MaxDepthHigh, high |-> MaxDepthLow] }

CategoricalDims == { <<>>, LossCategories }

Grids == [max_depth : IntegerDims, loss : CategoricalDims]

\* Integer(low, high): the constructor rejects high <= low.
IntegerOkLax(dim) == dim.low <= dim.high

IntegerOk(dim) == dim.low < dim.high

\* Categorical(categories): the constructor fails on an empty list.
CategoricalOk(cats) == Len(cats) > 0

\* The points a draw from the space can return.
PointsOf(g) ==
    { [max_depth |-> d, loss |-> g.loss[k]] :
        d \in {g.max_depth.low, g.max_depth.high}, k \in 1..Len(g.loss) }

\* ------------------------------------------------- the encoded (unit) space
\* The optimiser of the acquisition function works on encoded vectors, every
\* dimension scaled to [0, 1]; its end point may overshoot the unit interval.
EncodedCoords == (0 - Overshoot)..(1 + Overshoot)

EncodedVectors == [max_depth : EncodedCoords, loss : EncodedCoords]

Min(a, b) == IF a <= b THEN a ELSE b

Max(a, b) == IF a >= b THEN a ELSE b

\* Variant: the end point of the optimiser is used as it is.
clipNone(z) == z

\* The end point is clipped to the encoded bounds before it is decoded.
clip(z) ==
    [max_depth |-> Max(0, Min(1, z.max_depth)),
     loss |-> Max(0, Min(1, z.loss))]

\* Decoding: an Integer coordinate is scaled back to [low, high]; a Categorical
\* coordinate of two labels is the second label above one half, else the first.
inverse_transform(z, g) ==
    [max_depth |-> g.max_depth.low + z.max_depth * (g.max_depth.high - g.max_depth.low),
     loss |-> g.loss[IF 2 * z.loss > 1 THEN Len(g.loss) ELSE 1]]

\* -------------------------------------------------------------- the objective
\* objective(**params): value = mean accuracy; return -value.
objective(x) == 0 - accuracy[x]

\* ------------------------------------------------------- the running result
\* Variant: the last minimum instead of the first.
argminLast(s) ==
    CHOOSE i \in 1..Len(s) :
        /\ \A j \in 1..Len(s) : s[i] <= s[j]
        /\ \A j \in (i+1)..Len(s) : s[j] > s[i]

\* Index of the first minimum of a non-empty sequence (argmin).
argmin(s) ==
    CHOOSE i \in 1..Len(s) :
        /\ \A j \in 1..Len(s) : s[i] <= s[j]
        /\ \A j \in 1..(i-1) : s[j] > s[i]

\* The result object built after every tell: x = Xi[argmin(yi)], fun = min(yi).
create_resultLatest(X, y) == [x |-> X[Len(X)], fun |-> y[Len(y)]]

create_result(X, y) == [x |-> X[argmin(y)], fun |-> y[argmin(y)]]

\* ------------------------------------------------------------ loop conditions
\* ask(): a random point while initial points remain, else the model's proposal.
UseRandomOffByOne(left) == left >= 0

UseRandom(left) == left > 0

\* The number of iterations of the loop: for n in range(n_calls).
LoopBoundSubsequent(nc, nip) == nc + nip

LoopBound(nc, nip) == nc

\* Variant: the latest Observation is put in front of the others.
RecordFront(X, x) == <<x>> \o X

\* tell(): the point and its value are appended to the evaluated points and values.
Record(X, x) == Append(X, x)

\* Variant: the surrogate is fitted on the Trace without its latest Observation.
TrainingSetStale(X) == SubSeq(X, 1, Len(X) - 1)

\* The surrogate is fitted on all the points told so far.
TrainingSet(X) == X

\* fit_model: no fit on the last iteration.
FitModelAlways(k, nc) == TRUE

FitModel(k, nc) == k < nc - 1

\* ------------------------------------------------------------------- Init
Init ==
    /\ grid \in Grids
    /\ n_calls \in 1..MaxCalls
    /\ n_initial_points \in 1..n_calls
    /\ accuracy \in [PointsOf(grid) -> Scores]
    /\ pc = "param_grid"
    /\ n = 0
    /\ n_initial_left = 0
    /\ Xi = <<>>
    /\ yi = <<>>
    /\ next_x = NoPoint
    /\ next_y = 0
    /\ next_src = "none"
    /\ src = <<>>
    /\ model_next_x = NoPoint
    /\ models = <<>>
    /\ result = NoResult
    /\ gp_ = NoResult
    /\ error = "none"
    /\ evals = 0
    /\ reported = NoResult

\* ------------------------------------------------------------------ actions
\* Cell 9: param_grid = [Integer(...), ..., Categorical(...)].
DeclareSpace ==
    /\ pc = "param_grid"
    /\ IF IntegerOk(grid.max_depth) /\ CategoricalOk(grid.loss)
         THEN pc' = "gp_minimize" /\ error' = error
         ELSE pc' = "aborted" /\ error' = "InvalidSpaceError"
    /\ UNCHANGED <<grid, n_calls, n_initial_points, accuracy, n, n_initial_left, Xi, yi,
                   next_x, next_y, next_src, src, model_next_x, models, result, gp_,
                   evals, reported>>

\* Cell 15: gp_minimize(objective, param_grid, n_initial_points, n_calls) is entered.
CallGpMinimize ==
    /\ pc = "gp_minimize"
    /\ n_initial_left' = n_initial_points
    /\ n' = 0
    /\ pc' = "ask"
    /\ UNCHANGED <<grid, n_calls, n_initial_points, accuracy, Xi, yi, next_x, next_y,
                   next_src, src, model_next_x, models, result, gp_, error, evals,
                   reported>>

\* next_x = optimizer.ask()
Ask ==
    /\ pc = "ask"
    /\ IF UseRandom(n_initial_left)
         THEN /\ next_x' \in PointsOf(grid)
              /\ next_src' = "random"
         ELSE /\ next_x' = model_next_x
              /\ next_src' = "model"
    /\ pc' = "objective"
    /\ UNCHANGED <<grid, n_calls, n_initial_points, accuracy, n, n_initial_left, Xi, yi,
                   next_y, src, model_next_x, models, result, gp_, error, evals,
                   reported>>

\* next_y = func(next_x): the objective returns the negated accuracy.
ObjectiveReturns ==
    /\ pc = "objective"
    /\ evals' = evals + 1
    /\ next_y' = objective(next_x)
    /\ pc' = "tell"
    /\ UNCHANGED <<grid, n_calls, n_initial_points, accuracy, n, n_initial_left, Xi, yi,
                   next_x, next_src, src, model_next_x, models, result, gp_, error,
                   reported>>

\* What an exception raised inside objective does: nothing catches it.
RaiseSwallowed ==
    /\ pc' = "ask"
    /\ error' = "ObjectiveEvaluationError"
    /\ UNCHANGED <<Xi, yi, src, result>>

RaiseRecorded ==
    /\ pc' = "aborted"
    /\ error' = "ObjectiveEvaluationError"
    /\ Xi' = Append(Xi, next_x)
    /\ yi' = Append(yi, 0)
    /\ src' = Append(src, next_src)
    /\ result' = result

RaiseHang ==
    /\ pc' = "waiting"
    /\ error' = "ObjectiveEvaluationError"
    /\ UNCHANGED <<Xi, yi, src, result>>

Raise ==
    /\ pc' = "aborted"
    /\ error' = "ObjectiveEvaluationError"
    /\ UNCHANGED <<Xi, yi, src, result>>

\* next_y = func(next_x): the objective raises.
ObjectiveRaises ==
    /\ pc = "objective"
    /\ evals' = evals + 1
    /\ Raise
    /\ UNCHANGED <<grid, n_calls, n_initial_points, accuracy, n, n_initial_left,
                   next_x, next_y, next_src, model_next_x, models, gp_, reported>>

\* What an exception raised by the surrogate fit does: nothing catches it.
FitRaiseSwallowed ==
    /\ pc' = "ask"
    /\ error' = "SurrogateFitError"

FitRaise ==
    /\ pc' = "aborted"
    /\ error' = "SurrogateFitError"

\* result = optimizer.tell(next_x, next_y, fit=fit_model), the fit succeeding.
Tell ==
    /\ pc = "tell"
    /\ Xi' = Record(Xi, next_x)
    /\ yi' = Record(yi, next_y)
    /\ src' = Append(src, next_src)
    /\ n_initial_left' = n_initial_left - 1
    /\ IF FitModel(n, n_calls) /\ n_initial_left' <= 0
         THEN /\ models' = Append(models, Len(TrainingSet(Xi')))
              /\ model_next_x' \in
                    { inverse_transform(clip(z), grid) : z \in EncodedVectors }
         ELSE UNCHANGED <<models, model_next_x>>
    /\ result' = create_result(Xi', yi')
    /\ n' = n + 1
    /\ IF n' < LoopBound(n_calls, n_initial_points)
         THEN pc' = "ask" /\ gp_' = gp_
         ELSE pc' = "done" /\ gp_' = result'
    /\ UNCHANGED <<grid, n_calls, n_initial_points, accuracy, next_x, next_y, next_src,
                   error, evals, reported>>

\* result = optimizer.tell(next_x, next_y, fit=fit_model), the fit raising.
TellFitRaises ==
    /\ pc = "tell"
    /\ Xi' = Record(Xi, next_x)
    /\ yi' = Record(yi, next_y)
    /\ src' = Append(src, next_src)
    /\ n_initial_left' = n_initial_left - 1
    /\ FitModel(n, n_calls) /\ n_initial_left' <= 0
    /\ FitRaise
    /\ UNCHANGED <<grid, n_calls, n_initial_points, accuracy, n, next_x, next_y,
                   next_src, model_next_x, models, result, gp_, evals, reported>>

\* Cells 16 and 17: "Best score=%.4f" % gp_.fun and the print of gp_.x.
Report ==
    /\ pc = "done"
    /\ reported = NoResult
    /\ reported' = gp_
    /\ UNCHANGED <<grid, n_calls, n_initial_points, accuracy, pc, n, n_initial_left, Xi,
                   yi, next_x, next_y, next_src, src, model_next_x, models, result, gp_,
                   error, evals>>

Next ==
    \/ DeclareSpace
    \/ CallGpMinimize
    \/ Ask
    \/ ObjectiveReturns
    \/ ObjectiveRaises
    \/ Tell
    \/ TellFitRaises
    \/ Report

Spec == Init /\ [][Next]_vars

\* The notebook runs on one thread and every call in it returns or raises: a step
\* that can be taken is eventually taken.
FairSpec == Spec /\ WF_vars(Next)

\* ===================================================================== claims

C2_InitialThenModel ==
    /\ Len(src) = Len(Xi)
    /\ \A i \in 1..Len(Xi) :
         /\ src[i] \in {"random", "model"}
         /\ (src[i] = "random") <=> (i <= n_initial_points)
         /\ i > n_initial_points => \E k \in 1..Len(models) : models[k] = i - 1
    /\ Len(Xi) < n_initial_points => (models = <<>> /\ model_next_x = NoPoint)
    /\ pc \in {"objective", "tell"} =>
         /\ (next_src = "random") <=> (Len(Xi) < n_initial_points)
         /\ next_src = "model" =>
              /\ models # <<>>
              /\ models[Len(models)] = Len(Xi)
              /\ next_x = model_next_x

C2_Witness ==
    /\ n_initial_points >= 2
    /\ Len(Xi) > n_initial_points
    /\ src[Len(Xi)] = "model"

C5_Monotone ==
    [][(Len(yi) >= 1 /\ Len(yi') = Len(yi) + 1) => result'.fun <= result.fun]_vars

C5_Witness ==
    /\ Len(yi) >= 2
    /\ yi[Len(yi)] > result.fun
    /\ error = "none"

C17_AppendOnly ==
    [][/\ \/ (Xi' = Xi /\ yi' = yi)
          \/ /\ pc = "tell"
             /\ Xi' = Append(Xi, next_x)
             /\ yi' = Append(yi, next_y)
       /\ Len(Xi') = Len(yi')
       /\ error' = "none" => n' = Len(Xi')]_vars

C17_Witness ==
    /\ Len(Xi) >= 2
    /\ Len(models) >= 1
    /\ pc = "objective"

\* C19 as stated by the comments of the gp_minimize call: n_calls counts the
\* evaluations made after the n_initial_points starting ones, so a completed run
\* has called the objective n_initial_points + n_calls times.
C19_Comment ==
    pc = "done" => evals = n_initial_points + n_calls

====
